---- MODULE Spec2Model ----
(***************************************************************************)
(* Product provenance registry of truyGoc: the SupplyChain TypeScript      *)
(* client (mintProduct, transferProduct, getProductInfo,                   *)
(* checkOnChainExist, verifyProduct, generateProductQrData) together with  *)
(* the Move module SupplyChain::product_manager it talks to.               *)
(*                                                                         *)
(* The ledger is the Move global storage: one Product resource per account *)
(* address (move_to), and one sequence number per account.  Every client   *)
(* call is a process whose position is the await it is suspended on.       *)
(***************************************************************************)
EXTENDS Integers, Sequences, FiniteSets, TLC

\* ------------------------------------------------------------------ bounds
Accounts == {"A", "B"}
Ids == {"1", "2"}
\* the client calls that can be in flight together
Calls == {"c1", "c2"}
\* the number of transactions the ledger executes in one behaviour
MaxTxns == 3

\* ------------------------------------------------------- program constants
\* a SupplyChain instance constructed without a private key
NoAccount == "undefined"
Instances == Accounts \cup {NoAccount}

\* ------------------------------------------------------------- metadata
Undefined == [t |-> "undefined"]
Str(s) == [t |-> "string", v |-> s]
Date(ms) == [t |-> "Date", v |-> ms]
\* a Record<string, string>, as the set of its <<key, value>> entries
Object(entries) == [t |-> "object", v |-> entries]

\* ProductMetadata objects handed to mintProduct
ProductMetadata ==
  { [name |-> Str("Shoe"), description |-> Str("d"),
     dateManufactured |-> Date(0), ipfsLink |-> l,
     additionalInfo |-> Undefined] : l \in {Undefined} }

\* the latest manufacture date of the metadata records below, in ms
MaxDate == 1

\* every ProductMetadata object of the bounds: each optional property left
\* out, empty or set
MetadataRecords ==
  { [name |-> Str(n), description |-> Str("d"),
     dateManufactured |-> Date(ms), ipfsLink |-> l, additionalInfo |-> i] :
      n \in {"", "Shoe"}, ms \in 0..MaxDate,
      l \in {Undefined, Str(""), Str("ipfs://Qm")},
      i \in {Undefined, Object({}), Object({<<"size", "42">>})} }

Omitted == [t |-> "omitted"]

\* JSON.stringify: a Date is written as its ISO string, an undefined
\* property is left out of the document
JSONstringify(m) ==
  [name |-> m.name, description |-> m.description,
   dateManufactured |-> Str(m.dateManufactured.v),
   ipfsLink |-> IF m.ipfsLink = Undefined THEN Omitted ELSE m.ipfsLink,
   additionalInfo |->
     IF m.additionalInfo = Undefined THEN Omitted ELSE m.additionalInfo]

\* bytes that are the UTF-8 text of a JSON document, and bytes that are not
JsonBytes(doc) == [valid |-> TRUE, json |-> doc]
Garbage == [valid |-> FALSE]

\* Buffer.from(JSON.stringify(metadata)).toString('hex'), passed as `0x${...}`
serializedMetadata(m) == [prefix |-> "0x", bytes |-> JsonBytes(JSONstringify(m))]

\* vector<u8> values a transaction can carry as the metadata argument
Payloads == {serializedMetadata(m).bytes : m \in ProductMetadata} \cup {Garbage}

\* ------------------------------------------------------------------ state
VARIABLES
  products,   \* Move global storage: address -> Product resource, or NoProduct
  seqNum,     \* ledger: address -> account sequence number
  calls,      \* client calls in flight: position, arguments, transaction
  qres,       \* the result of the last read-only call
  qr,         \* the last generateProductQrData call: arguments and result
  codec       \* a metadata record on its way through mintProduct's
              \* serialization and getProductInfo's deserialization

vars == <<products, seqNum, calls, qres, qr, codec>>

NoProduct == [exists |-> FALSE]

Product(id, manufacturer, current_owner, metadata, history) ==
  [exists |-> TRUE, id |-> id, manufacturer |-> manufacturer,
   current_owner |-> current_owner, metadata |-> metadata, history |-> history]

\* addresses holding a Product whose id field is id
Holders(id) == {a \in Accounts : products[a].exists /\ products[a].id = id}

\* the number of transactions executed so far: every executed transaction,
\* committed or aborted, takes one sequence number of its sender
RECURSIVE SumSeq(_)
SumSeq(S) == IF S = {} THEN 0
             ELSE LET a == CHOOSE x \in S : TRUE IN seqNum[a] + SumSeq(S \ {a})
Executable == SumSeq(Accounts) < MaxTxns

\* ----------------------------------------------------- Move entry functions
MODULE_ADDRESS == "0x1"

\* Outcome of executing an entry function: the VM status of the transaction
\* and the global storage after it (unchanged when the transaction aborts).
Executed(store) == [status |-> "Executed", store |-> store]
Aborted(reason) == [status |-> reason, store |-> products]

\* mint_product with the module address written as the first owner
mint_product_OwnerIsModule(account, id, metadata) ==
  IF products[account].exists
    THEN Aborted("RESOURCE_ALREADY_EXISTS")
    ELSE Executed([products EXCEPT ![account] =
                     Product(id, account, MODULE_ADDRESS, metadata, <<>>)])

\* mint_product with the module address written as the manufacturer
mint_product_ManufacturerIsModule(account, id, metadata) ==
  IF products[account].exists
    THEN Aborted("RESOURCE_ALREADY_EXISTS")
    ELSE Executed([products EXCEPT ![account] =
                     Product(id, MODULE_ADDRESS, account, metadata, <<>>)])

\* mint_product: builds the Product and move_to's it under the signer's
\* address; move_to aborts when that address already holds a Product.
mint_product(account, id, metadata) ==
  IF products[account].exists
    THEN Aborted("RESOURCE_ALREADY_EXISTS")
    ELSE Executed([products EXCEPT ![account] =
                     Product(id, account, account, metadata, <<>>)])

\* transfer_product that restarts the history at the new owner
transfer_product_Restart(sender, new_owner, id, holder) ==
  IF products[holder].current_owner # sender
    THEN Aborted("NotOwner")
    ELSE Executed([products EXCEPT
                     ![holder].history = <<new_owner>>,
                     ![holder].current_owner = new_owner])

\* transfer_product on the Product found at address holder: "check
\* ownership, then update history and owner".
transfer_product(sender, new_owner, id, holder) ==
  IF products[holder].current_owner # sender
    THEN Aborted("NotOwner")
    ELSE Executed([products EXCEPT
                     ![holder].history = Append(@, new_owner),
                     ![holder].current_owner = new_owner])

\* the outcomes of a transfer_product transaction: the lookup by id finds a
\* Product with that id, or aborts when there is none
TransferOutcomes(sender, new_owner, id) ==
  IF Holders(id) = {}
    THEN {Aborted("NotFound")}
    ELSE {transfer_product(sender, new_owner, id, h) : h \in Holders(id)}

\* ------------------------------------------------------------ client calls
MINT_PRODUCT == <<MODULE_ADDRESS, "SupplyChain", "product_manager", "mint_product">>
TRANSFER_PRODUCT ==
  <<MODULE_ADDRESS, "SupplyChain", "product_manager", "transfer_product">>
NoFunction == <<>>

IdleCall ==
  [pc |-> "idle", companyAccount |-> NoAccount, function |-> NoFunction,
   productId |-> "none", metadata |-> Garbage, newOwnerAddress |-> "none",
   sequence_number |-> 0, vm_status |-> "none", result |-> "none"]

Free(c) == calls[c].pc \in {"idle", "done"}

\* what the promise of a mutating call settles with
Hash == "hash"
Error == "error"

\* mintProduct up to its first await (generateTransaction)
mintProduct(c, inst, productId, metadata) ==
  /\ Free(c)
  /\ Executable
  /\ calls' = [calls EXCEPT ![c] =
       IF inst = NoAccount
         THEN [IdleCall EXCEPT !.pc = "done", !.function = MINT_PRODUCT,
                               !.result = Error]
         ELSE [IdleCall EXCEPT !.pc = "generateTransaction",
                               !.companyAccount = inst,
                               !.function = MINT_PRODUCT,
                               !.productId = productId,
                               !.metadata = serializedMetadata(metadata).bytes]]
  /\ UNCHANGED <<products, seqNum, qres, qr, codec>>

\* transferProduct up to its first await (generateTransaction)
transferProduct(c, inst, productId, newOwnerAddress) ==
  /\ Free(c)
  /\ Executable
  /\ calls' = [calls EXCEPT ![c] =
       IF inst = NoAccount
         THEN [IdleCall EXCEPT !.pc = "done", !.function = TRANSFER_PRODUCT,
                               !.result = Error]
         ELSE [IdleCall EXCEPT !.pc = "generateTransaction",
                               !.companyAccount = inst,
                               !.function = TRANSFER_PRODUCT,
                               !.productId = productId,
                               !.newOwnerAddress = newOwnerAddress]]
  /\ UNCHANGED <<products, seqNum, qres, qr, codec>>

\* client.generateTransaction resolves: the raw transaction carries the
\* account's sequence number as the ledger has it now
generateTransaction(c) ==
  /\ calls[c].pc = "generateTransaction"
  /\ calls' = [calls EXCEPT
       ![c].sequence_number = seqNum[calls[c].companyAccount],
       ![c].pc = "signTransaction"]
  /\ UNCHANGED <<products, seqNum, qres, qr, codec>>

\* client.signTransaction resolves
signTransaction(c) ==
  /\ calls[c].pc = "signTransaction"
  /\ calls' = [calls EXCEPT ![c].pc = "submitTransaction"]
  /\ UNCHANGED <<products, seqNum, qres, qr, codec>>

\* the outcomes of executing the call's transaction on the ledger
Execute(call) ==
  IF call.function = MINT_PRODUCT
    THEN {mint_product(call.companyAccount, call.productId, call.metadata)}
    ELSE TransferOutcomes(call.companyAccount, call.newOwnerAddress,
                          call.productId)

\* a call past its last use of the transaction: the arguments and the
\* transaction are locals that are not read again
Settled(call, pc, vm_status, result) ==
  [IdleCall EXCEPT !.pc = pc, !.function = call.function,
                   !.vm_status = vm_status, !.result = result]

\* client.submitTransaction: the ledger rejects a transaction whose sequence
\* number is not the account's next one, and the call throws
submitRejected(c) ==
  /\ calls[c].pc = "submitTransaction"
  /\ calls[c].sequence_number # seqNum[calls[c].companyAccount]
  /\ calls' = [calls EXCEPT ![c] = Settled(calls[c], "done", "none", Error)]
  /\ UNCHANGED <<products, seqNum, qres, qr, codec>>

\* client.submitTransaction accepted: the ledger takes the sequence number
\* and executes the entry function
submitTransaction(c) ==
  /\ calls[c].pc = "submitTransaction"
  /\ calls[c].sequence_number = seqNum[calls[c].companyAccount]
  /\ Executable
  /\ \E o \in Execute(calls[c]) :
       /\ products' = o.store
       /\ calls' = [calls EXCEPT ![c] =
            Settled(calls[c], "waitForTransaction", o.status, "none")]
  /\ seqNum' = [seqNum EXCEPT ![calls[c].companyAccount] = @ + 1]
  /\ UNCHANGED <<qres, qr, codec>>

\* what `await client.waitForTransaction(hash); return hash` settles with for
\* a transaction of this VM status: the call passes no checkSuccess option,
\* so the wait resolves once the transaction is no longer pending
waitForTransaction(vm_status) == Hash

returnHash(c) ==
  /\ calls[c].pc = "waitForTransaction"
  /\ calls' = [calls EXCEPT ![c] =
       Settled(calls[c], "done", calls[c].vm_status,
               waitForTransaction(calls[c].vm_status))]
  /\ UNCHANGED <<products, seqNum, qres, qr, codec>>

\* a mint_product transaction sent to the ledger directly, by any client,
\* with any byte vector as metadata
entryMint(account, id, metadata) ==
  /\ Executable
  /\ products' = mint_product(account, id, metadata).store
  /\ seqNum' = [seqNum EXCEPT ![account] = @ + 1]
  /\ UNCHANGED <<calls, qres, qr, codec>>

\* a transfer_product transaction sent to the ledger directly
entryTransfer(sender, new_owner, id) ==
  /\ Executable
  /\ \E o \in TransferOutcomes(sender, new_owner, id) : products' = o.store
  /\ seqNum' = [seqNum EXCEPT ![sender] = @ + 1]
  /\ UNCHANGED <<calls, qres, qr, codec>>

\* ---------------------------------------------------------- read-only calls
\* what client.view of get_product_info resolves with: the five values of a
\* Product with that id, or nothing when no Product has it; a byte vector
\* is returned as a `0x`-prefixed hex string
viewResponses(productId) ==
  IF Holders(productId) = {}
    THEN {<<>>}
    ELSE {<<products[h].id, products[h].manufacturer, products[h].current_owner,
            [prefix |-> "0x", bytes |-> products[h].metadata],
            products[h].history>> : h \in Holders(productId)}

\* Buffer.from(metadataHex.toString().substring(2), 'hex').toString('utf8')
metadataJson(metadataHex) == metadataHex.bytes

\* JSON.parse of a document written by JSONstringify: a property left out
\* reads as undefined, a date stays the string it was written as
JSONparse(doc) ==
  [name |-> doc.name, description |-> doc.description,
   dateManufactured |-> doc.dateManufactured,
   ipfsLink |-> IF doc.ipfsLink = Omitted THEN Undefined ELSE doc.ipfsLink,
   additionalInfo |->
     IF doc.additionalInfo = Omitted THEN Undefined ELSE doc.additionalInfo]

Null == [null |-> TRUE]

\* getProductInfo for a given response of the view: null for an empty
\* response and, through the catch, for metadata that JSON.parse rejects
getProductInfo(response) ==
  IF Len(response) = 0
    THEN Null
    ELSE IF ~metadataJson(response[4]).valid
      THEN Null
      ELSE [null |-> FALSE,
            id |-> response[1],
            manufacturer |-> response[2],
            currentOwner |-> response[3],
            metadata |-> JSONparse(metadataJson(response[4]).json),
            history |-> response[5]]

\* checkOnChainExist: productInfo !== null
checkOnChainExist(response) == ~getProductInfo(response).null

\* verifyProduct
verifyProduct(response, expectedManufacturer) ==
  LET productInfo == getProductInfo(response) IN
  IF productInfo.null
    THEN [exists |-> FALSE, isAuthentic |-> FALSE]
    ELSE [exists |-> TRUE,
          isAuthentic |-> productInfo.manufacturer = expectedManufacturer,
          manufacturer |-> productInfo.manufacturer,
          currentOwner |-> productInfo.currentOwner,
          transferCount |-> Len(productInfo.history)]

NoQuery == [fn |-> "none"]

callGetProductInfo(productId) ==
  /\ \E r \in viewResponses(productId) :
       qres' = [fn |-> "getProductInfo", productId |-> productId,
                response |-> r, out |-> getProductInfo(r)]
  /\ UNCHANGED <<products, seqNum, calls, qr, codec>>

callCheckOnChainExist(productId) ==
  /\ \E r \in viewResponses(productId) :
       qres' = [fn |-> "checkOnChainExist", productId |-> productId,
                response |-> r, out |-> checkOnChainExist(r)]
  /\ UNCHANGED <<products, seqNum, calls, qr, codec>>

callVerifyProduct(productId, expectedManufacturer) ==
  /\ \E r \in viewResponses(productId) :
       qres' = [fn |-> "verifyProduct", productId |-> productId,
                expectedManufacturer |-> expectedManufacturer,
                response |-> r, out |-> verifyProduct(r, expectedManufacturer)]
  /\ UNCHANGED <<products, seqNum, calls, qr, codec>>

\* ------------------------------------------------------------- QR payload
\* Strings are sequences of symbols; the two literals of the payload scheme
\* are one symbol each.
SCHEME == "supplychain:product:"
VERIFY == "/verify?id="
Symbols == {"a", SCHEME, VERIFY}
MaxStr == 2

Strings == UNION {[1..n -> Symbols] : n \in 0..MaxStr}

\* an optional string argument: left out, or given
NotGiven == [given |-> FALSE]
Given(str) == [given |-> TRUE, v |-> str]

\* generateProductQrData with the two template arguments exchanged
generateProductQrData_Swapped(productId, dAppUrl) ==
  IF dAppUrl.given /\ dAppUrl.v # <<>>
    THEN productId \o <<VERIFY>> \o dAppUrl.v
    ELSE <<SCHEME>> \o productId

\* generateProductQrData: `if (dAppUrl)` is false for a dAppUrl left out and
\* for the empty string
generateProductQrData(productId, dAppUrl) ==
  IF dAppUrl.given /\ dAppUrl.v # <<>>
    THEN dAppUrl.v \o <<VERIFY>> \o productId
    ELSE <<SCHEME>> \o productId

ParseError == [ok |-> FALSE]
Parsed(id) == [ok |-> TRUE, id |-> id]

\* fromScanPayload: the bare form is SCHEME followed by the id, the URL form
\* is an app URL, VERIFY and the id; anything else is a ParseError
fromScanPayload(str) ==
  IF Len(str) >= 1 /\ str[1] = SCHEME
    THEN Parsed(SubSeq(str, 2, Len(str)))
    ELSE IF \E i \in 1..Len(str) : str[i] = VERIFY
      THEN LET i == CHOOSE k \in 1..Len(str) :
                      str[k] = VERIFY /\ \A j \in 1..(k - 1) : str[j] # VERIFY
           IN Parsed(SubSeq(str, i + 1, Len(str)))
      ELSE ParseError

NoQr == [fn |-> "none"]

\* generateProductQrData on the drawn arguments, then the scan of its result
callGenerateProductQrData ==
  /\ qr.fn = "input"
  /\ qr' = [fn |-> "generateProductQrData", productId |-> qr.productId,
            dAppUrl |-> qr.dAppUrl,
            data |-> generateProductQrData(qr.productId, qr.dAppUrl)]
  /\ UNCHANGED <<products, seqNum, calls, qres, codec>>

callFromScanPayload ==
  /\ qr.fn = "generateProductQrData"
  /\ qr' = [fn |-> "fromScanPayload", productId |-> qr.productId,
            dAppUrl |-> qr.dAppUrl, data |-> qr.data,
            parsed |-> fromScanPayload(qr.data)]
  /\ UNCHANGED <<products, seqNum, calls, qres, codec>>

\* fromScanPayload on a drawn string
callScan ==
  /\ qr.fn = "scanInput"
  /\ qr' = [fn |-> "scanned", data |-> qr.data,
            parsed |-> fromScanPayload(qr.data)]
  /\ UNCHANGED <<products, seqNum, calls, qres, codec>>

\* --------------------------------------------------------- metadata codec
NoCodec == [fn |-> "none"]

\* mintProduct's serialization of the drawn metadata into the transaction
\* argument
callSerialize ==
  /\ codec.fn = "input"
  /\ codec' = [fn |-> "mintProduct", metadata |-> codec.metadata,
               argument |-> serializedMetadata(codec.metadata)]
  /\ UNCHANGED <<products, seqNum, calls, qres, qr>>

\* getProductInfo's deserialization of the stored bytes, which the view
\* returns as the 0x-prefixed hex string they were sent as
callDeserialize ==
  /\ codec.fn = "mintProduct"
  /\ codec' = [fn |-> "getProductInfo", metadata |-> codec.metadata,
               metadataHex |-> codec.argument,
               decoded |-> JSONparse(metadataJson(codec.argument).json)]
  /\ UNCHANGED <<products, seqNum, calls, qres, qr>>

\* ------------------------------------------------------------ specification
Init ==
  /\ products = [a \in Accounts |-> NoProduct]
  /\ seqNum = [a \in Accounts |-> 0]
  /\ calls = [c \in Calls |-> IdleCall]
  /\ qres = NoQuery
  /\ qr = NoQr
  /\ codec = NoCodec

\* the client's mutating calls, run concurrently against the ledger
Next ==
  \/ \E c \in Calls, inst \in Instances, id \in Ids, m \in ProductMetadata :
       mintProduct(c, inst, id, m)
  \/ \E c \in Calls, inst \in Instances, id \in Ids, o \in Accounts :
       transferProduct(c, inst, id, o)
  \/ \E c \in Calls : generateTransaction(c)
  \/ \E c \in Calls : signTransaction(c)
  \/ \E c \in Calls : submitRejected(c)
  \/ \E c \in Calls : submitTransaction(c)
  \/ \E c \in Calls : returnHash(c)

Spec == Init /\ [][Next]_vars

\* the read-only calls against a ledger that any client writes to
NextRead ==
  \/ \E a \in Accounts, id \in Ids, md \in Payloads : entryMint(a, id, md)
  \/ \E a \in Accounts, o \in Accounts, id \in Ids : entryTransfer(a, o, id)
  \/ \E id \in Ids : callGetProductInfo(id)
  \/ \E id \in Ids : callCheckOnChainExist(id)
  \/ \E id \in Ids, m \in Accounts : callVerifyProduct(id, m)

SpecRead == Init /\ [][NextRead]_vars

\* the QR payload scheme on every product id and app URL of the bounds
InitQr ==
  /\ products = [a \in Accounts |-> NoProduct]
  /\ seqNum = [a \in Accounts |-> 0]
  /\ calls = [c \in Calls |-> IdleCall]
  /\ qres = NoQuery
  /\ codec = NoCodec
  /\ qr \in {[fn |-> "input", productId |-> x, dAppUrl |-> u] :
               x \in Strings, u \in {NotGiven} \cup {Given(v) : v \in Strings}}
            \cup {[fn |-> "scanInput", data |-> str] : str \in Strings}

NextQr ==
  \/ callGenerateProductQrData
  \/ callFromScanPayload
  \/ callScan

SpecQr == InitQr /\ [][NextQr]_vars

\* the metadata codec on every metadata record of the bounds
InitCodec ==
  /\ products = [a \in Accounts |-> NoProduct]
  /\ seqNum = [a \in Accounts |-> 0]
  /\ calls = [c \in Calls |-> IdleCall]
  /\ qres = NoQuery
  /\ qr = NoQr
  /\ codec \in {[fn |-> "input", metadata |-> m] : m \in MetadataRecords}

NextCodec ==
  \/ callSerialize
  \/ callDeserialize

SpecCodec == InitCodec /\ [][NextCodec]_vars

\* ------------------------------------------------------------------ claims
\* the step in which the ledger executes the transaction of call c
Executes(c) ==
  calls[c].pc = "submitTransaction" /\ calls'[c].pc = "waitForTransaction"

\* the step in which call c returns to its caller after the wait
Returns(c) ==
  calls[c].pc = "waitForTransaction" /\ calls'[c].pc = "done"

\* C1 (uniqueness of mint): a mint of an id that some Product already has
\* leaves the ledger unchanged and aborts as already existing, and a mint
\* that aborted so does not return a success result to its caller.
C1_UniqueMint ==
  [][\A c \in Calls :
       /\ (Executes(c) /\ calls[c].function = MINT_PRODUCT
             /\ Holders(calls[c].productId) # {})
           => (products' = products
                 /\ calls'[c].vm_status = "RESOURCE_ALREADY_EXISTS")
       /\ (Returns(c) /\ calls[c].function = MINT_PRODUCT
             /\ calls[c].vm_status = "RESOURCE_ALREADY_EXISTS")
           => calls'[c].result # Hash]_vars

\* C2 (ownership gate): a transfer signed by an account that is the current
\* owner of no Product with that id leaves the ledger unchanged and aborts
\* as NotOwner, and a transfer that aborted so does not return a success
\* result to its caller.
C2_OwnershipGate ==
  [][\A c \in Calls :
       /\ (Executes(c) /\ calls[c].function = TRANSFER_PRODUCT
             /\ Holders(calls[c].productId) # {}
             /\ \A h \in Holders(calls[c].productId) :
                  products[h].current_owner # calls[c].companyAccount)
           => (products' = products /\ calls'[c].vm_status = "NotOwner")
       /\ (Returns(c) /\ calls[c].function = TRANSFER_PRODUCT
             /\ calls[c].vm_status = "NotOwner")
           => calls'[c].result # Hash]_vars

\* a call that has read the account's sequence number into its transaction
\* and has not submitted it yet
Built(c) == calls[c].pc \in {"signTransaction", "submitTransaction"}

\* C3 (per-signer serialization): no two calls of one account are both
\* between building and submitting their transaction, so no two of them
\* carry the same sequence number.
C3_Serialized ==
  \A c1, c2 \in Calls :
    (c1 # c2 /\ Built(c1) /\ Built(c2)
       /\ calls[c1].companyAccount = calls[c2].companyAccount)
    => FALSE

\* the step in which the ledger commits the transfer of call c
Transfers(c) ==
  /\ Executes(c)
  /\ calls[c].function = TRANSFER_PRODUCT
  /\ calls'[c].vm_status = "Executed"

\* the step in which the ledger commits the mint of call c
Mints(c) ==
  /\ Executes(c)
  /\ calls[c].function = MINT_PRODUCT
  /\ calls'[c].vm_status = "Executed"

IsPrefix(s, t) == Len(s) <= Len(t) /\ SubSeq(t, 1, Len(s)) = s

\* C4 (append-only history): a committed transfer appends newOwner to the
\* history of one Product with that id and changes no other history; a
\* history changes in no other step, so it only ever grows at its end, by
\* one entry for each committed transfer of its Product.
C4_AppendOnly ==
  [][/\ \A c \in Calls : Transfers(c) =>
          \E h \in Holders(calls[c].productId) :
            /\ products'[h].history =
                 Append(products[h].history, calls[c].newOwnerAddress)
            /\ \A a \in Accounts \ {h} : products'[a] = products[a]
     /\ \A a \in Accounts : products[a].exists =>
          /\ products'[a].exists
          /\ IsPrefix(products[a].history, products'[a].history)
          /\ products'[a].history # products[a].history =>
               /\ Len(products'[a].history) = Len(products[a].history) + 1
               /\ \E c \in Calls :
                    Transfers(c) /\ calls[c].productId = products[a].id]_vars

\* two transfers of one Product have been committed, the second just now
C4_Witness ==
  \E a \in Accounts, c \in Calls :
    /\ products[a].exists
    /\ Len(products[a].history) = 2
    /\ products[a].history[1] # products[a].history[2]
    /\ calls[c].pc = "waitForTransaction"
    /\ calls[c].function = TRANSFER_PRODUCT
    /\ calls[c].vm_status = "Executed"

OwnerIsLast(p) ==
  p.current_owner =
    IF p.history = <<>> THEN p.manufacturer ELSE p.history[Len(p.history)]

\* C5 (current-owner invariant): after every step each Product's
\* current_owner is the last entry of its history, or its manufacturer when
\* the history is empty; a Product just minted has the minting signer as
\* manufacturer and current_owner and an empty history.
C5_CurrentOwner ==
  [][/\ \A a \in Accounts : products'[a].exists => OwnerIsLast(products'[a])
     /\ \A c \in Calls : Mints(c) =>
          LET p == products'[calls[c].companyAccount] IN
          /\ p.exists
          /\ p.id = calls[c].productId
          /\ p.manufacturer = calls[c].companyAccount
          /\ p.current_owner = calls[c].companyAccount
          /\ p.history = <<>>]_vars

\* a Product transferred to another account, beside one that account minted
C5_Witness ==
  \E a, b \in Accounts :
    /\ a # b
    /\ products[a].exists /\ products[b].exists
    /\ products[a].history = <<b>>
    /\ products[a].current_owner = b
    /\ products[b].history = <<>>
    /\ products[b].current_owner = b

\* C6 (manufacturer immutability): a committed mint records the minting
\* signer as manufacturer, and no step changes the manufacturer of a Product
\* that exists or removes the Product.
C6_ManufacturerFixed ==
  [][/\ \A c \in Calls : Mints(c) =>
          products'[calls[c].companyAccount].manufacturer
            = calls[c].companyAccount
     /\ \A a \in Accounts : products[a].exists =>
          /\ products'[a].exists
          /\ products'[a].manufacturer = products[a].manufacturer]_vars

\* a Product now owned by another account than its manufacturer, after a
\* second mint by the manufacturer was aborted
C6_Witness ==
  \E a \in Accounts, c \in Calls :
    /\ products[a].exists
    /\ products[a].manufacturer = a
    /\ products[a].current_owner # a
    /\ calls[c].function = MINT_PRODUCT
    /\ calls[c].vm_status = "RESOURCE_ALREADY_EXISTS"

\* C9 (self-transfer rejection): a transfer of an existing Product whose
\* newOwner is the signer is not committed and leaves the ledger unchanged.
C9_SelfTransferRejected ==
  [][\A c \in Calls :
       (Executes(c) /\ calls[c].function = TRANSFER_PRODUCT
          /\ calls[c].newOwnerAddress = calls[c].companyAccount
          /\ Holders(calls[c].productId) # {})
       => (products' = products /\ calls'[c].vm_status # "Executed")]_vars

\* the step of a read-only call: the ledger is as it was
Reads == UNCHANGED <<products, seqNum>>

\* C7 (authenticity judgment): verifyProduct returns exists = true exactly
\* when a Product with the id is on the ledger, then with isAuthentic =
\* (manufacturer = expectedManufacturer) and the Product's manufacturer,
\* currentOwner and history length, and otherwise exactly
\* {exists: false, isAuthentic: false}.
C7_Verify ==
  [][(Reads /\ qres'.fn = "verifyProduct") =>
       LET id == qres'.productId
           m == qres'.expectedManufacturer
       IN IF Holders(id) = {}
            THEN qres'.out = [exists |-> FALSE, isAuthentic |-> FALSE]
            ELSE \E h \in Holders(id) :
                   qres'.out =
                     [exists |-> TRUE,
                      isAuthentic |-> products[h].manufacturer = m,
                      manufacturer |-> products[h].manufacturer,
                      currentOwner |-> products[h].current_owner,
                      transferCount |-> Len(products[h].history)]]_vars

\* C8 (query error distinction): for a Product that is on the ledger with
\* metadata that does not decode, getProductInfo does not give the result
\* it gives for an id that is not on the ledger, and checkOnChainExist is
\* true.
C8_MalformedDistinct ==
  [][(Reads /\ qres'.fn \in {"getProductInfo", "checkOnChainExist"}
        /\ Len(qres'.response) > 0
        /\ ~metadataJson(qres'.response[4]).valid)
     => /\ qres'.fn = "getProductInfo" => qres'.out # getProductInfo(<<>>)
        /\ qres'.fn = "checkOnChainExist" => qres'.out = TRUE]_vars

MatchesBare(str) == Len(str) >= 1 /\ str[1] = SCHEME
MatchesUrl(str) == \E i \in 1..Len(str) : str[i] = VERIFY

\* C10 (QR payload round-trip), as claimed: without an app URL the payload
\* is SCHEME id, with any given app URL it is appUrl VERIFY id, the scan of
\* either gives the id back, and the scan of a string of neither form is a
\* ParseError.
C10_RoundTrip ==
  /\ qr.fn \in {"generateProductQrData", "fromScanPayload"} =>
       qr.data = IF qr.dAppUrl.given
                   THEN qr.dAppUrl.v \o <<VERIFY>> \o qr.productId
                   ELSE <<SCHEME>> \o qr.productId
  /\ qr.fn = "fromScanPayload" => qr.parsed = Parsed(qr.productId)
  /\ (qr.fn = "scanned" /\ ~MatchesBare(qr.data) /\ ~MatchesUrl(qr.data)) =>
       qr.parsed = ParseError

\* the app URLs the scan tells from the id: not empty, not starting with
\* SCHEME, not containing VERIFY
PlainUrl(u) ==
  u.given /\ u.v # <<>> /\ ~MatchesBare(u.v) /\ ~MatchesUrl(u.v)

\* C10 as amended: without an app URL, or with the empty one, the payload is
\* SCHEME id; with a non-empty app URL it is appUrl VERIFY id; the scan gives
\* the id back from the bare form, and from the URL form when the app URL
\* neither starts with SCHEME nor contains VERIFY; the scan of a string of
\* neither form is a ParseError.
C10_RoundTripPlainUrl ==
  /\ qr.fn \in {"generateProductQrData", "fromScanPayload"} =>
       qr.data = IF qr.dAppUrl.given /\ qr.dAppUrl.v # <<>>
                   THEN qr.dAppUrl.v \o <<VERIFY>> \o qr.productId
                   ELSE <<SCHEME>> \o qr.productId
  /\ (qr.fn = "fromScanPayload"
        /\ (~qr.dAppUrl.given \/ qr.dAppUrl.v = <<>> \/ PlainUrl(qr.dAppUrl)))
     => qr.parsed = Parsed(qr.productId)
  /\ (qr.fn = "scanned" /\ ~MatchesBare(qr.data) /\ ~MatchesUrl(qr.data)) =>
       qr.parsed = ParseError

\* a URL-form payload of an id that itself holds both literals, scanned back
C10_Witness ==
  /\ qr.fn = "fromScanPayload"
  /\ PlainUrl(qr.dAppUrl)
  /\ qr.productId = <<VERIFY, SCHEME>>
  /\ qr.data = qr.dAppUrl.v \o <<VERIFY>> \o qr.productId
  /\ qr.parsed = Parsed(qr.productId)

\* C11 (metadata round-trip): the record getProductInfo decodes from the
\* payload mintProduct encoded equals the record that was encoded, in every
\* property and its type, with a property left out still left out.
C11_RoundTrip ==
  codec.fn = "getProductInfo" => codec.decoded = codec.metadata
====
